---- MODULE Spec2Model ----
(***************************************************************************)
(* Model of src/lock/lockfile.rs: the Lockfile aggregate, its two          *)
(* constructors (new_from_manifest, new_from_manifest_and_lockfile), the   *)
(* change resolver, the module and command importers and the two lookups.  *)
(*                                                                         *)
(* Option<T> is modelled as a sequence of length 0 (None) or 1 (Some(x)).  *)
(* BTreeMap<String, T> is modelled as a function whose DOMAIN is the key   *)
(* set; insert overwrites.                                                 *)
(***************************************************************************)
EXTENDS Naturals, Sequences, FiniteSets, TLC

\* ------------------------------------------------------------------ bounds
\* most commands the manifest of a dependency declares ([[command]] entries)
MaxCommands == 1
\* most entries of the module map of an existing lockfile
MaxLockModules == 2

\* ------------------------------------------------------------ input sets
\* dependency names, in the key order of the [dependencies] table
SortedNames == <<"bar", "foo">>
DepNames == {SortedNames[j] : j \in 1..Len(SortedNames)}
Versions == {"1.0.0", "1.0.2"}
\* command names, in the order a manifest lists them
SortedCommandNames == <<"do_foo_stuff", "do_more_foo_stuff">>
CommandNames == {SortedCommandNames[j] : j \in 1..Len(SortedCommandNames)}

None == <<>>
Some(x) == <<x>>
IsSome(o) == Len(o) = 1
Unwrap(o) == o[1]

\* ------------------------------------------------------------------ maps
EmptyMap == <<>>
\* BTreeMap::insert: the value under an existing key is overwritten
Insert(map, k, v) == [x \in (DOMAIN map) \cup {k} |-> IF x = k THEN v ELSE map[x]]

\* format!("{} {}", name, version)
Key(name, version) == name \o " " \o version

\* -------------------------------------------------------------- manifest
\* [module] of a manifest: name, version, module (path of the wasm file)
RootModule == [name |-> "test", version |-> "1.0.0", module |-> "target.wasm"]
DepModule(name, version) == [name |-> name, version |-> version, module |-> "module.wasm"]

\* [[command]] lists: non-empty sequences of commands, each {name}; one list
\* for each set of at most MaxCommands names
RECURSIVE ListOf(_, _)
ListOf(C, j) ==
    IF j > Len(SortedCommandNames) THEN <<>>
    ELSE IF SortedCommandNames[j] \in C
         THEN <<[name |-> SortedCommandNames[j]]>> \o ListOf(C, j + 1)
         ELSE ListOf(C, j + 1)
CommandLists ==
    {ListOf(C, 1) : C \in {D \in SUBSET CommandNames :
                              Cardinality(D) >= 1 /\ Cardinality(D) <= MaxCommands}}
CommandOptions == {None} \cup {Some(l) : l \in CommandLists}
\* the [[command]] list of the root manifest
RootCommandOptions == {None, Some(<<[name |-> "do_foo_stuff"]>>)}

\* values of the [dependencies] table: a version string, or a value that is
\* not a string
TomlValues == {[type |-> "String", value |-> v] : v \in Versions}
                 \cup {[type |-> "Integer", value |-> "1"]}
Tables == UNION {[D -> TomlValues] : D \in SUBSET DepNames}
DependencyOptions == {None} \cup {Some(t) : t \in Tables}

RootManifests ==
    [module : {None, Some(RootModule)}, command : RootCommandOptions,
     dependencies : DependencyOptions]
NoManifest == [module |-> None, command |-> None, dependencies |-> None]

\* manifest::extract_dependencies: the (name, version) pairs of the table in
\* key order; an error when a value is not a string
RECURSIVE ExtractFrom(_, _)
ExtractFrom(table, j) ==
    IF j > Len(SortedNames) THEN <<>>
    ELSE IF SortedNames[j] \in DOMAIN table
         THEN <<<<SortedNames[j], table[SortedNames[j]].value>>>> \o ExtractFrom(table, j + 1)
         ELSE ExtractFrom(table, j + 1)
extract_dependencies(table) ==
    IF \E n \in DOMAIN table : table[n].type # "String"
    THEN [ok |-> FALSE, value |-> <<>>]
    ELSE [ok |-> TRUE, value |-> ExtractFrom(table, 1)]

\* ------------------------------------------------------ resolver answers
\* dependency_resolver::Dependency {name, manifest, download_url}; the name
\* and the version of the record are whatever the resolver says they are
DependencyRecords ==
    UNION {[name : {n},
            manifest : [module : {None} \cup {Some(DepModule(n, v)) : v \in Versions},
                        command : CommandOptions],
            download_url : {"url"}] : n \in DepNames}
\* DependencyResolver::resolve(name, version): Err, or Ok(Dependency). The name
\* of a record is read only when its manifest declares a module, so a record
\* without a module is given under the asked name alone
Answers == {None} \cup {Some(d) : d \in DependencyRecords}
AnswersFor(name) ==
    {a \in Answers : IsSome(a) /\ ~IsSome(a[1].manifest.module) => a[1].name = name}

\* ---------------------------------------------------------- lock records
\* LockfileModule::from_module(name, module, download_url)
from_module(name, module, download_url) ==
    [name |-> name, version |-> module.version, resolved |-> download_url,
     entry |-> module.module]
\* LockfileCommand::from_command(module, command)
from_command(module, command) == [module |-> module]

\* module records an existing lockfile holds
StoredModule(name, version) ==
    [name |-> name, version |-> version, resolved |-> "", entry |-> "target.wasm"]
ModuleKeys == {Key(n, v) : n \in DepNames, v \in Versions}
StoredModules ==
    {[k \in {Key(p[1], p[2]) : p \in P} |->
        LET p == CHOOSE q \in P : Key(q[1], q[2]) = k IN StoredModule(p[1], p[2])]
     : P \in {Q \in SUBSET (DepNames \X Versions) : Cardinality(Q) <= MaxLockModules}}
\* the command do_foo_stuff, if any, bound to the key of a dependency's module
\* or to the key of the root manifest's own module
StoredCommands ==
    UNION {[C -> {[module |-> k] : k \in ModuleKeys \cup {Key(RootModule.name, RootModule.version)}}]
           : C \in SUBSET {"do_foo_stuff"}}
Lockfiles == [modules : StoredModules, commands : StoredCommands]
EmptyLockfile == [modules |-> EmptyMap, commands |-> EmptyMap]

VARIABLES
    pc,                          \* position of the running constructor
    op,                          \* the constructor that runs or has returned
    manifest,                    \* its manifest argument
    existing_lockfile,           \* its existing_lockfile argument
    dependencies,                \* new_from_manifest: the extracted dependencies
    manifests,                   \* new_from_manifest: the resolved dependencies
    changed_dependencies,        \* resolve_changes' first output
    unchanged_lockfile_modules,  \* resolve_changes' second output
    lockfile_modules,            \* the module map under construction
    lockfile_commands,           \* the command map under construction
    i,                           \* index of the running for loop
    calls,                       \* the resolver's invocations, with its answers
    result,                      \* what the constructor returned
    lockfile,                    \* the Lockfile the caller holds
    lookup                       \* what the last get_command/get_module returned

vars == <<pc, op, manifest, existing_lockfile, dependencies, manifests,
          changed_dependencies, unchanged_lockfile_modules, lockfile_modules,
          lockfile_commands, i, calls, result, lockfile, lookup>>

locals == <<dependencies, manifests, changed_dependencies,
            unchanged_lockfile_modules, lockfile_modules, lockfile_commands, i>>

Ok(l) == [ok |-> TRUE, lockfile |-> l]
Err(e) == [ok |-> FALSE, err |-> e]

\* ------------------------------------------------------- pure functions
\* resolve_changes_step with the lookup left out: every dependency is changed
resolve_changes_step_all_changed(acc, name, version, modules) ==
    [acc EXCEPT !.changes = Append(@, <<name, version>>)]

\* resolve_changes_step with the lookup by name alone: a module of the same
\* name under any version counts as unchanged
resolve_changes_step_by_name(acc, name, version, modules) ==
    IF \E v \in Versions : Key(name, v) \in DOMAIN modules
    THEN LET key == Key(name, CHOOSE v \in Versions : Key(name, v) \in DOMAIN modules)
         IN  [acc EXCEPT !.not_changed = Insert(@, key, modules[key])]
    ELSE [acc EXCEPT !.changes = Append(@, <<name, version>>)]

\* resolve_changes, one iteration of the for loop over the dependencies
resolve_changes_step(acc, name, version, modules) ==
    LET key == Key(name, version)
    IN  IF key \in DOMAIN modules
        THEN [acc EXCEPT !.not_changed = Insert(@, key, modules[key])]
        ELSE [acc EXCEPT !.changes = Append(@, <<name, version>>)]

RECURSIVE resolve_changes_loop(_, _, _, _)
resolve_changes_loop(deps, j, acc, modules) ==
    IF j > Len(deps) THEN acc
    ELSE resolve_changes_loop(deps, j + 1,
             resolve_changes_step(acc, deps[j][1], deps[j][2], modules), modules)

\* resolve_changes(manifest, lockfile_modules) -> Result<(changes, not_changed)>
resolve_changes(m, modules) ==
    IF IsSome(m.dependencies)
    THEN LET extracted == extract_dependencies(Unwrap(m.dependencies))
         IN  IF ~extracted.ok
             THEN [ok |-> FALSE, changes |-> <<>>, not_changed |-> EmptyMap]
             ELSE LET r == resolve_changes_loop(extracted.value, 1,
                               [changes |-> <<>>, not_changed |-> EmptyMap], modules)
                  IN  [ok |-> TRUE, changes |-> r.changes, not_changed |-> r.not_changed]
    ELSE [ok |-> TRUE, changes |-> <<>>, not_changed |-> EmptyMap]

\* for command in commands { lockfile_commands.insert(command.name, from_command(key, command)) }
RECURSIVE insert_commands(_, _, _, _)
insert_commands(commands, j, key, map) ==
    IF j > Len(commands) THEN map
    ELSE insert_commands(commands, j + 1, key,
             Insert(map, commands[j].name, from_command(key, commands[j])))

\* get_lockfile_data_from_manifest that imports the commands of a manifest
\* without a module too, bound to the name of the dependency
get_lockfile_data_from_manifest_orphans(dependency, modules, commands) ==
    IF IsSome(dependency.manifest.module)
    THEN LET lockfile_module == from_module(dependency.name,
                                    Unwrap(dependency.manifest.module),
                                    dependency.download_url)
             key == Key(lockfile_module.name, lockfile_module.version)
         IN  [modules  |-> Insert(modules, key, lockfile_module),
              commands |-> IF IsSome(dependency.manifest.command)
                           THEN insert_commands(Unwrap(dependency.manifest.command), 1,
                                                key, commands)
                           ELSE commands]
    ELSE [modules  |-> modules,
          commands |-> IF IsSome(dependency.manifest.command)
                       THEN insert_commands(Unwrap(dependency.manifest.command), 1,
                                            dependency.name, commands)
                       ELSE commands]

\* get_lockfile_data_from_manifest that keeps the entry a command name
\* already has (first write wins)
get_lockfile_data_from_manifest_first_wins(dependency, modules, commands) ==
    IF IsSome(dependency.manifest.module)
    THEN LET lockfile_module == from_module(dependency.name,
                                    Unwrap(dependency.manifest.module),
                                    dependency.download_url)
             key == Key(lockfile_module.name, lockfile_module.version)
             new == IF IsSome(dependency.manifest.command)
                    THEN insert_commands(Unwrap(dependency.manifest.command), 1,
                                         key, commands)
                    ELSE commands
         IN  [modules  |-> Insert(modules, key, lockfile_module),
              commands |-> [n \in DOMAIN new |->
                               IF n \in DOMAIN commands THEN commands[n] ELSE new[n]]]
    ELSE [modules |-> modules, commands |-> commands]

\* get_lockfile_data_from_manifest that binds the commands to the name of the
\* module, without its version
get_lockfile_data_from_manifest_name_key(dependency, modules, commands) ==
    IF IsSome(dependency.manifest.module)
    THEN LET lockfile_module == from_module(dependency.name,
                                    Unwrap(dependency.manifest.module),
                                    dependency.download_url)
             key == Key(lockfile_module.name, lockfile_module.version)
         IN  [modules  |-> Insert(modules, key, lockfile_module),
              commands |-> IF IsSome(dependency.manifest.command)
                           THEN insert_commands(Unwrap(dependency.manifest.command), 1,
                                                lockfile_module.name, commands)
                           ELSE commands]
    ELSE [modules |-> modules, commands |-> commands]

\* get_lockfile_data_from_manifest(dependency, lockfile_modules, lockfile_commands):
\* the two maps after the call
get_lockfile_data_from_manifest(dependency, modules, commands) ==
    IF IsSome(dependency.manifest.module)
    THEN LET lockfile_module == from_module(dependency.name,
                                    Unwrap(dependency.manifest.module),
                                    dependency.download_url)
             key == Key(lockfile_module.name, lockfile_module.version)
         IN  [modules  |-> Insert(modules, key, lockfile_module),
              commands |-> IF IsSome(dependency.manifest.command)
                           THEN insert_commands(Unwrap(dependency.manifest.command), 1,
                                                key, commands)
                           ELSE commands]
    ELSE [modules |-> modules, commands |-> commands]

\* get_commands_from_manifest that keeps the entry a command name already has
get_commands_from_manifest_keep(m, commands) ==
    IF IsSome(m.command) /\ IsSome(m.module)
    THEN LET new == insert_commands(Unwrap(m.command), 1,
                        Key(Unwrap(m.module).name, Unwrap(m.module).version), commands)
         IN  [n \in DOMAIN new |-> IF n \in DOMAIN commands THEN commands[n] ELSE new[n]]
    ELSE commands

\* get_commands_from_manifest(manifest, lockfile_commands): the map after the call
get_commands_from_manifest(m, commands) ==
    IF IsSome(m.command) /\ IsSome(m.module)
    THEN insert_commands(Unwrap(m.command), 1,
             Key(Unwrap(m.module).name, Unwrap(m.module).version), commands)
    ELSE commands

\* unchanged_commands that carries no command over
unchanged_commands_none(unchanged, existing_commands) == EmptyMap

\* unchanged_commands without the filter: every command is carried over
unchanged_commands_all(unchanged, existing_commands) == existing_commands

\* new_from_manifest_and_lockfile, lines 79-87: the commands of the existing
\* lockfile whose module is a key of the unchanged modules
unchanged_commands(unchanged, existing_commands) ==
    [n \in {c \in DOMAIN existing_commands : existing_commands[c].module \in DOMAIN unchanged}
        |-> existing_commands[n]]

\* unchanged_modules with every module of the existing lockfile carried over
unchanged_modules_all(unchanged, existing_modules) == existing_modules

\* new_from_manifest_and_lockfile, line 89: the module map starts as the
\* unchanged modules
unchanged_modules(unchanged, existing_modules) == unchanged

\* Lockfile::get_command / Lockfile::get_module
get_command(l, command_name) ==
    IF command_name \in DOMAIN l.commands
    THEN [ok |-> TRUE, value |-> l.commands[command_name]]
    ELSE [ok |-> FALSE, err |-> [kind |-> "CommandNotFound", name |-> command_name]]
\* get_module that falls back to a module of that name under any version
get_module_by_name(l, module_name) ==
    IF module_name \in DOMAIN l.modules
    THEN [ok |-> TRUE, value |-> l.modules[module_name]]
    ELSE IF \E v \in Versions : Key(module_name, v) \in DOMAIN l.modules
         THEN [ok |-> TRUE,
               value |-> l.modules[Key(module_name,
                            CHOOSE v \in Versions : Key(module_name, v) \in DOMAIN l.modules)]]
         ELSE [ok |-> FALSE, err |-> [kind |-> "ModuleNotFound", name |-> module_name]]
get_module(l, module_name) ==
    IF module_name \in DOMAIN l.modules
    THEN [ok |-> TRUE, value |-> l.modules[module_name]]
    ELSE [ok |-> FALSE, err |-> [kind |-> "ModuleNotFound", name |-> module_name]]

\* ---------------------------------------------------------------- state
Init ==
    /\ pc = "idle"
    /\ op = "none"
    /\ manifest = NoManifest
    /\ existing_lockfile = EmptyLockfile
    /\ dependencies = <<>>
    /\ manifests = <<>>
    /\ changed_dependencies = <<>>
    /\ unchanged_lockfile_modules = EmptyMap
    /\ lockfile_modules = EmptyMap
    /\ lockfile_commands = EmptyMap
    /\ i = 1
    /\ calls = <<>>
    /\ result = None
    /\ lockfile = None
    /\ lookup = None

\* Lockfile::open: the caller reads a lockfile from the directory
Open(l) ==
    /\ pc = "idle"
    /\ lockfile' = Some(l)
    /\ lookup' = None
    /\ UNCHANGED <<pc, op, manifest, existing_lockfile, locals, calls, result>>

\* Lockfile::get_command(&self, command_name)
GetCommand(command_name) ==
    /\ pc = "idle"
    /\ IsSome(lockfile)
    /\ lookup' = Some([fn |-> "get_command", arg |-> command_name,
                        result |-> get_command(Unwrap(lockfile), command_name)])
    /\ UNCHANGED <<pc, op, manifest, existing_lockfile, locals, calls, result, lockfile>>

\* Lockfile::get_module(&self, module_name)
GetModule(module_name) ==
    /\ pc = "idle"
    /\ IsSome(lockfile)
    /\ lookup' = Some([fn |-> "get_module", arg |-> module_name,
                        result |-> get_module(Unwrap(lockfile), module_name)])
    /\ UNCHANGED <<pc, op, manifest, existing_lockfile, locals, calls, result, lockfile>>

\* new_from_manifest, lines 33-39: no lockfile exists; the dependencies are
\* extracted (the ? returns the error)
NewFromManifest(m) ==
    /\ pc = "idle"
    /\ lockfile = None
    /\ op' = "new_from_manifest"
    /\ manifest' = m
    /\ lookup' = None
    /\ lockfile_modules' = EmptyMap
    /\ lockfile_commands' = EmptyMap
    /\ manifests' = <<>>
    /\ i' = 1
    /\ LET extracted == IF IsSome(m.dependencies)
                        THEN extract_dependencies(Unwrap(m.dependencies))
                        ELSE [ok |-> TRUE, value |-> <<>>]
       IN  IF extracted.ok
           THEN /\ dependencies' = extracted.value
                /\ pc' = IF Len(extracted.value) = 0 THEN "nfm_import" ELSE "nfm_resolve"
                /\ result' = None
           ELSE /\ dependencies' = <<>>
                /\ pc' = "done"
                /\ result' = Some(Err([kind |-> "Manifest"]))
    /\ UNCHANGED <<existing_lockfile, changed_dependencies,
                   unchanged_lockfile_modules, calls, lockfile>>

\* new_from_manifest, lines 40-43: one iteration of the resolving loop; the
\* resolver answers with `answer`
NfmResolve(answer) ==
    /\ pc = "nfm_resolve"
    /\ i <= Len(dependencies)
    /\ answer \in AnswersFor(dependencies[i][1])
    /\ calls' = Append(calls, [name |-> dependencies[i][1],
                               version |-> dependencies[i][2], answer |-> answer])
    /\ IF IsSome(answer)
       THEN /\ manifests' = Append(manifests, Unwrap(answer))
            /\ i' = IF i = Len(dependencies) THEN 1 ELSE i + 1
            /\ pc' = IF i = Len(dependencies) THEN "nfm_import" ELSE "nfm_resolve"
            /\ result' = None
       ELSE /\ pc' = "done"
            /\ result' = Some(Err([kind |-> "Resolve", name |-> dependencies[i][1],
                                   version |-> dependencies[i][2]]))
            /\ UNCHANGED <<manifests, i>>
    /\ UNCHANGED <<op, manifest, existing_lockfile, dependencies, changed_dependencies,
                   unchanged_lockfile_modules, lockfile_modules, lockfile_commands,
                   lockfile, lookup>>

\* new_from_manifest, lines 44-50: one iteration of the importing loop
NfmImport ==
    /\ pc = "nfm_import"
    /\ i <= Len(manifests)
    /\ LET data == get_lockfile_data_from_manifest(manifests[i], lockfile_modules,
                                                   lockfile_commands)
       IN  /\ lockfile_modules' = data.modules
           /\ lockfile_commands' = data.commands
    /\ i' = i + 1
    /\ UNCHANGED <<pc, op, manifest, existing_lockfile, dependencies, manifests,
                   changed_dependencies, unchanged_lockfile_modules, calls, result,
                   lockfile, lookup>>

\* new_from_manifest, lines 51-59: the manifest's own commands, and the return
NfmFinish ==
    /\ pc = "nfm_import"
    /\ i > Len(manifests)
    /\ lockfile_commands' = get_commands_from_manifest(manifest, lockfile_commands)
    /\ result' = Some(Ok([modules |-> lockfile_modules, commands |-> lockfile_commands']))
    /\ pc' = "done"
    /\ UNCHANGED <<op, manifest, existing_lockfile, dependencies, manifests,
                   changed_dependencies, unchanged_lockfile_modules, lockfile_modules,
                   i, calls, lockfile, lookup>>

\* new_from_manifest_and_lockfile, lines 72-89: the caller's lockfile is moved
\* into the call; resolve_changes (the ? returns the error), the commands of
\* the unchanged modules, the unchanged modules
NewFromManifestAndLockfile(m) ==
    /\ pc = "idle"
    /\ IsSome(lockfile)
    /\ op' = "new_from_manifest_and_lockfile"
    /\ manifest' = m
    /\ existing_lockfile' = Unwrap(lockfile)
    /\ lockfile' = None
    /\ lookup' = None
    /\ i' = 1
    /\ LET changes == resolve_changes(m, Unwrap(lockfile).modules)
       IN  IF changes.ok
           THEN /\ changed_dependencies' = changes.changes
                /\ unchanged_lockfile_modules' = changes.not_changed
                /\ lockfile_commands' = unchanged_commands(changes.not_changed,
                                                           Unwrap(lockfile).commands)
                /\ lockfile_modules' = unchanged_modules(changes.not_changed,
                                                         Unwrap(lockfile).modules)
                /\ pc' = "nfml_resolve"
                /\ result' = None
           ELSE /\ changed_dependencies' = <<>>
                /\ unchanged_lockfile_modules' = EmptyMap
                /\ lockfile_commands' = EmptyMap
                /\ lockfile_modules' = EmptyMap
                /\ pc' = "done"
                /\ result' = Some(Err([kind |-> "Manifest"]))
    /\ UNCHANGED <<dependencies, manifests, calls>>

\* NfmlResolve that skips a dependency the resolver fails on and goes on
NfmlResolve_skip_failed(answer) ==
    /\ pc = "nfml_resolve"
    /\ i <= Len(changed_dependencies)
    /\ answer \in AnswersFor(changed_dependencies[i][1])
    /\ calls' = Append(calls, [name |-> changed_dependencies[i][1],
                               version |-> changed_dependencies[i][2], answer |-> answer])
    /\ LET data == IF IsSome(answer)
                   THEN get_lockfile_data_from_manifest(Unwrap(answer), lockfile_modules,
                                                        lockfile_commands)
                   ELSE [modules |-> lockfile_modules, commands |-> lockfile_commands]
       IN  /\ lockfile_modules' = data.modules
           /\ lockfile_commands' = data.commands
    /\ i' = i + 1
    /\ UNCHANGED <<pc, result, op, manifest, existing_lockfile, dependencies, manifests,
                   changed_dependencies, unchanged_lockfile_modules, lockfile, lookup>>

\* new_from_manifest_and_lockfile, lines 91-98: one iteration of the loop over
\* the changed dependencies; the resolver answers with `answer`
NfmlResolve(answer) ==
    /\ pc = "nfml_resolve"
    /\ i <= Len(changed_dependencies)
    /\ answer \in AnswersFor(changed_dependencies[i][1])
    /\ calls' = Append(calls, [name |-> changed_dependencies[i][1],
                               version |-> changed_dependencies[i][2], answer |-> answer])
    /\ IF IsSome(answer)
       THEN LET data == get_lockfile_data_from_manifest(Unwrap(answer), lockfile_modules,
                                                        lockfile_commands)
            IN  /\ lockfile_modules' = data.modules
                /\ lockfile_commands' = data.commands
                /\ i' = i + 1
                /\ UNCHANGED <<pc, result>>
       ELSE /\ pc' = "done"
            /\ result' = Some(Err([kind |-> "Resolve", name |-> changed_dependencies[i][1],
                                   version |-> changed_dependencies[i][2]]))
            /\ UNCHANGED <<lockfile_modules, lockfile_commands, i>>
    /\ UNCHANGED <<op, manifest, existing_lockfile, dependencies, manifests,
                   changed_dependencies, unchanged_lockfile_modules, lockfile, lookup>>

\* new_from_manifest_and_lockfile, lines 100-108: the manifest's own commands,
\* and the return
NfmlFinish ==
    /\ pc = "nfml_resolve"
    /\ i > Len(changed_dependencies)
    /\ lockfile_commands' = get_commands_from_manifest(manifest, lockfile_commands)
    /\ result' = Some(Ok([modules |-> lockfile_modules, commands |-> lockfile_commands']))
    /\ pc' = "done"
    /\ UNCHANGED <<op, manifest, existing_lockfile, dependencies, manifests,
                   changed_dependencies, unchanged_lockfile_modules, lockfile_modules,
                   i, calls, lockfile, lookup>>

\* the caller takes the Result; the locals of the call are gone
Return ==
    /\ pc = "done"
    /\ pc' = "idle"
    /\ op' = "none"
    /\ manifest' = NoManifest
    /\ existing_lockfile' = EmptyLockfile
    /\ dependencies' = <<>>
    /\ manifests' = <<>>
    /\ changed_dependencies' = <<>>
    /\ unchanged_lockfile_modules' = EmptyMap
    /\ lockfile_modules' = EmptyMap
    /\ lockfile_commands' = EmptyMap
    /\ i' = 1
    /\ calls' = <<>>
    /\ result' = None
    /\ UNCHANGED <<lockfile, lookup>>

\* strings a caller looks up: the keys, and strings that are no key
LookupNames == CommandNames \cup ModuleKeys \cup DepNames \cup {"do_foo", "foo 1.0"}

Next ==
    \/ \E l \in Lockfiles : Open(l)
    \/ \E n \in LookupNames : GetCommand(n)
    \/ \E n \in LookupNames : GetModule(n)
    \/ \E m \in RootManifests : NewFromManifest(m)
    \/ \E a \in Answers : NfmResolve(a)
    \/ NfmImport
    \/ NfmFinish
    \/ \E m \in RootManifests : NewFromManifestAndLockfile(m)
    \/ \E a \in Answers : NfmlResolve(a)
    \/ NfmlFinish
    \/ Return

Spec == Init /\ [][Next]_vars

\* ------------------------------------------------- locking a manifest again
\* The caller keeps the Lockfile a constructor returned and still holds the
\* manifest; what the resolver was asked and answered stays on record. A
\* Lockfile is kept for another reconciliation as long as no reconciliation
\* has asked the resolver.
Keep ==
    /\ pc = "done"
    /\ result[1].ok
    /\ Len(calls) = Len(dependencies)
    /\ pc' = "idle"
    /\ lockfile' = Some(result[1].lockfile)
    /\ result' = None
    /\ UNCHANGED <<op, manifest, existing_lockfile, locals, calls, lookup>>

\* new_from_manifest, then new_from_manifest_and_lockfile on the same manifest
\* and the Lockfile kept, with any resolver, again and again
NextRelock ==
    \/ \E m \in RootManifests : NewFromManifest(m)
    \/ \E a \in Answers : NfmResolve(a)
    \/ NfmImport
    \/ NfmFinish
    \/ Keep
    \/ NewFromManifestAndLockfile(manifest)
    \/ \E a \in Answers : NfmlResolve(a)
    \/ NfmlFinish

SpecRelock == Init /\ [][NextRelock]_vars

\* ------------------------------------------------------------ properties
Reconciling == op = "new_from_manifest_and_lockfile"
Creating == op = "new_from_manifest"
Returned == pc = "done" /\ result[1].ok
\* the [dependencies] table of the manifest argument
DeclaredTable == IF IsSome(manifest.dependencies) THEN manifest.dependencies[1] ELSE <<>>
WellFormed == \A n \in DOMAIN DeclaredTable : DeclaredTable[n].type = "String"
\* the declared (name, constraint) pairs
Declared == {<<n, DeclaredTable[n].value>> : n \in DOMAIN DeclaredTable}
\* the invocations of the resolver with (n, v)
CallsWith(n, v) == {j \in 1..Len(calls) : calls[j].name = n /\ calls[j].version = v}
Positions(seq, x) == {j \in 1..Len(seq) : seq[j] = x}
IsHit(d) == Key(d[1], d[2]) \in DOMAIN existing_lockfile.modules

\* C1: in new_from_manifest_and_lockfile every declared dependency whose key
\* name ++ " " ++ constraint is a key of the existing modules is in the
\* unchanged output of resolve_changes with the module record of the existing
\* lockfile, and the resolver is never invoked with it; when every declared
\* dependency is such a hit the construction returns a Lockfile without any
\* resolver call.
C1_HitIsUnchangedAndNotResolved ==
    (Reconciling /\ WellFormed) =>
        /\ \A d \in Declared :
              IsHit(d) =>
                 /\ Key(d[1], d[2]) \in DOMAIN unchanged_lockfile_modules
                 /\ unchanged_lockfile_modules[Key(d[1], d[2])]
                       = existing_lockfile.modules[Key(d[1], d[2])]
                 /\ CallsWith(d[1], d[2]) = {}
        /\ ((\A d \in Declared : IsHit(d)) /\ pc = "done") =>
              (result[1].ok /\ calls = <<>>)

\* C1 witness: a reconciliation returned with one declared dependency a hit
\* and the other one resolved
C1_Witness ==
    /\ Reconciling /\ Returned
    /\ \E d \in Declared : IsHit(d)
    /\ Len(calls) = 1

\* C2: in new_from_manifest_and_lockfile every declared dependency whose key
\* is not a key of the existing modules is in the changed sequence of
\* resolve_changes, once; when the construction returns a Lockfile the
\* resolver has been invoked with exactly the changed dependencies, once each.
C2_MissIsChangedAndResolvedOnce ==
    (Reconciling /\ WellFormed) =>
        /\ \A d \in Declared :
              ~IsHit(d) =>
                 /\ Cardinality(Positions(changed_dependencies, d)) = 1
                 /\ Returned => Cardinality(CallsWith(d[1], d[2])) = 1
        /\ Returned =>
              /\ Len(calls) = Len(changed_dependencies)
              /\ \A j \in 1..Len(calls) :
                    <<calls[j].name, calls[j].version>> \in {d \in Declared : ~IsHit(d)}

\* C2 witness: a reconciliation returned where the existing lockfile holds a
\* declared name under another version, and a second dependency changed too
C2_Witness ==
    /\ Reconciling /\ Returned
    /\ \E d \in Declared :
          /\ ~IsHit(d)
          /\ \E v \in Versions : Key(d[1], v) \in DOMAIN existing_lockfile.modules
    /\ Len(changed_dependencies) = 2

\* the commands of the existing lockfile whose module is not an unchanged key
DroppedCommands ==
    {c \in DOMAIN existing_lockfile.commands :
        existing_lockfile.commands[c].module \notin DOMAIN unchanged_lockfile_modules}
\* a manifest resolved during this construction declares a command named c
ResolvedDeclares(c) ==
    \E j \in 1..Len(calls) :
        /\ IsSome(calls[j].answer)
        /\ IsSome(calls[j].answer[1].manifest.command)
        /\ \E k \in 1..Len(calls[j].answer[1].manifest.command[1]) :
              calls[j].answer[1].manifest.command[1][k].name = c
\* the root manifest declares an owned module and a command named c
RootOwns(c) ==
    /\ IsSome(manifest.module)
    /\ IsSome(manifest.command)
    /\ \E k \in 1..Len(manifest.command[1]) : manifest.command[1][k].name = c

\* C3 as claimed: a command of the existing lockfile whose module is not an
\* unchanged key is in the returned command map only if a manifest resolved
\* for a changed dependency declares a command of that name.
C3_AsClaimed ==
    (Reconciling /\ Returned) =>
        \A c \in DroppedCommands :
            c \in DOMAIN result[1].lockfile.commands => ResolvedDeclares(c)

\* C3 amended: a command of the existing lockfile whose module is not an
\* unchanged key is in the returned command map only if a manifest resolved
\* for a changed dependency declares a command of that name or the root
\* manifest declares an owned module and a command of that name; a command
\* that neither of them declares is in the returned map only as the copy of
\* a command of the existing lockfile whose module is an unchanged key.
C3_DroppedUnlessRedeclared ==
    (Reconciling /\ Returned) =>
        /\ \A c \in DroppedCommands :
              c \in DOMAIN result[1].lockfile.commands =>
                 (ResolvedDeclares(c) \/ RootOwns(c))
        /\ \A c \in DOMAIN result[1].lockfile.commands :
              ~(ResolvedDeclares(c) \/ RootOwns(c)) =>
                 /\ c \in DOMAIN existing_lockfile.commands
                 /\ existing_lockfile.commands[c].module
                       \in DOMAIN unchanged_lockfile_modules
                 /\ result[1].lockfile.commands[c] = existing_lockfile.commands[c]

\* C3 witness: a reconciliation returned without the command of a changed
\* module, and one with a command copied from an unchanged module
C3_Witness ==
    /\ Reconciling /\ Returned
    /\ Len(calls) >= 1
    /\ \E c \in DroppedCommands : c \notin DOMAIN result[1].lockfile.commands

\* the answers of the resolver that carry a module: the imports that insert
Imports ==
    {j \in 1..Len(calls) :
        IsSome(calls[j].answer) /\ IsSome(calls[j].answer[1].manifest.module)}
ImportKey(j) == Key(calls[j].answer[1].name, calls[j].answer[1].manifest.module[1].version)
ImportKeys == {ImportKey(j) : j \in Imports}
\* the last import under key k
LastImport(k) ==
    CHOOSE j \in Imports :
        ImportKey(j) = k /\ \A h \in Imports : ImportKey(h) = k => h <= j
DeclaredKeys == {Key(d[1], d[2]) : d \in Declared}

\* C4: the module map new_from_manifest_and_lockfile returns has exactly the
\* keys of the unchanged modules (the declared keys the existing lockfile
\* holds) and the keys name ++ " " ++ version of the changed dependencies
\* whose resolved manifest declares a module; an unchanged key no import
\* writes holds the record of the existing lockfile, an imported key the
\* record of its last import; a module of the existing lockfile whose key is
\* not declared is in the result only if a changed dependency imports that key.
C4_ModulesAreUnchangedPlusImported ==
    (Reconciling /\ Returned) =>
        LET modules == result[1].lockfile.modules
        IN  /\ DOMAIN modules = (DOMAIN unchanged_lockfile_modules) \cup ImportKeys
            /\ DOMAIN unchanged_lockfile_modules
                  = DeclaredKeys \cap DOMAIN existing_lockfile.modules
            /\ \A k \in (DOMAIN unchanged_lockfile_modules) \ ImportKeys :
                  modules[k] = existing_lockfile.modules[k]
            /\ \A k \in ImportKeys :
                  /\ modules[k].name = calls[LastImport(k)].answer[1].name
                  /\ modules[k].version
                        = calls[LastImport(k)].answer[1].manifest.module[1].version
                  /\ modules[k].resolved = calls[LastImport(k)].answer[1].download_url
            /\ \A k \in (DOMAIN existing_lockfile.modules) \ DeclaredKeys :
                  k \in DOMAIN modules <=> k \in ImportKeys

\* C4 witness: the existing lockfile holds foo 1.0.0 and bar 1.0.0, the
\* manifest declares foo = 1.0.2 and bar = 1.0.2, and the returned module map
\* is exactly {foo 1.0.2, bar 1.0.2}
C4_Witness ==
    /\ Reconciling /\ Returned
    /\ DOMAIN existing_lockfile.modules = {"foo 1.0.0", "bar 1.0.0"}
    /\ Declared = {<<"foo", "1.0.2">>, <<"bar", "1.0.2">>}
    /\ DOMAIN result[1].lockfile.modules = {"foo 1.0.2", "bar 1.0.2"}

\* C5: in the Lockfile either constructor returns, every command the root
\* manifest declares together with an owned module is bound to root module
\* name ++ " " ++ root module version, whatever a resolved dependency or the
\* existing lockfile bound that name to.
C5_RootCommandsShadow ==
    Returned =>
        \A c \in CommandNames :
            RootOwns(c) =>
               /\ c \in DOMAIN result[1].lockfile.commands
               /\ result[1].lockfile.commands[c].module
                     = Key(manifest.module[1].name, manifest.module[1].version)

\* C5 witness: a reconciliation returned where the root manifest owns
\* do_foo_stuff, the existing lockfile binds it to an unchanged module and a
\* changed dependency with a module declares it too
C5_Witness ==
    /\ Reconciling /\ Returned
    /\ RootOwns("do_foo_stuff")
    /\ "do_foo_stuff" \in DOMAIN existing_lockfile.commands
    /\ existing_lockfile.commands["do_foo_stuff"].module
          \in DOMAIN unchanged_lockfile_modules
    /\ \E j \in Imports :
          /\ IsSome(calls[j].answer[1].manifest.command)
          /\ calls[j].answer[1].manifest.command[1][1].name = "do_foo_stuff"

\* C6: a failure of the resolver or of the dependency extraction ends the
\* construction with an error and no Lockfile: the failing call is the last
\* call, no (name, constraint) is asked twice, and a construction that
\* returned a Lockfile met no failure.
C6_FailureAborts ==
    /\ \A j \in 1..Len(calls) :
          ~IsSome(calls[j].answer) =>
             /\ j = Len(calls)
             /\ pc = "done"
             /\ ~result[1].ok
             /\ "lockfile" \notin DOMAIN result[1]
    /\ \A j, k \in 1..Len(calls) :
          (calls[j].name = calls[k].name /\ calls[j].version = calls[k].version) => j = k
    /\ (op # "none" /\ ~WellFormed) =>
          /\ pc = "done"
          /\ ~result[1].ok
          /\ "lockfile" \notin DOMAIN result[1]
          /\ calls = <<>>
    /\ (pc = "done" /\ result[1].ok) =>
          (WellFormed /\ \A j \in 1..Len(calls) : IsSome(calls[j].answer))

\* C6 witness: a reconciliation whose second resolver call failed after the
\* first dependency had been imported
C6_Witness ==
    /\ Reconciling /\ pc = "done"
    /\ Len(calls) = 2
    /\ ~IsSome(calls[2].answer)
    /\ DOMAIN lockfile_modules # {}
    /\ ~result[1].ok

\* the command names a [[command]] option declares
DeclaredCommands(command) ==
    IF IsSome(command) THEN {command[1][k].name : k \in 1..Len(command[1])} ELSE {}

\* C7: a manifest that declares commands but no owned module adds nothing:
\* importing such a resolved dependency leaves the module map and the command
\* map as they were, and the root manifest's commands leave the command map
\* as it was.
C7_ModulelessContributesNothing ==
    [][/\ (/\ pc = "nfml_resolve"
           /\ Len(calls') = Len(calls) + 1
           /\ IsSome(calls'[Len(calls')].answer)
           /\ ~IsSome(calls'[Len(calls')].answer[1].manifest.module)
           /\ IsSome(calls'[Len(calls')].answer[1].manifest.command))
          => (/\ lockfile_modules' = lockfile_modules
              /\ lockfile_commands' = lockfile_commands)
       /\ (/\ pc = "nfm_import"
           /\ i' = i + 1
           /\ ~IsSome(manifests[i].manifest.module)
           /\ IsSome(manifests[i].manifest.command))
          => (/\ lockfile_modules' = lockfile_modules
              /\ lockfile_commands' = lockfile_commands)
       /\ (/\ pc \in {"nfm_import", "nfml_resolve"}
           /\ pc' = "done"
           /\ result'[1].ok
           /\ ~IsSome(manifest.module)
           /\ IsSome(manifest.command))
          => (/\ lockfile_modules' = lockfile_modules
              /\ lockfile_commands' = lockfile_commands
              /\ result'[1].lockfile.modules = lockfile_modules
              /\ result'[1].lockfile.commands = lockfile_commands)
      ]_vars

\* C7 witness: a construction returned empty maps although the resolved
\* dependency and the root manifest both declare commands, neither with a
\* module
C7_Witness ==
    /\ Returned
    /\ Len(calls) >= 1
    /\ \A j \in 1..Len(calls) :
          /\ ~IsSome(calls[j].answer[1].manifest.module)
          /\ IsSome(calls[j].answer[1].manifest.command)
    /\ ~IsSome(manifest.module) /\ IsSome(manifest.command)
    /\ DOMAIN result[1].lockfile.commands = {}
    /\ DOMAIN result[1].lockfile.modules = {}

\* C8: get_command and get_module leave the Lockfile as it is; on a key of
\* the map they return the stored record, on any other string (a prefix of a
\* key, a module name without its version) the not-found error of their kind
\* carrying the requested string.
C8_ExactLookup ==
    [][(pc = "idle" /\ pc' = "idle" /\ IsSome(lookup')) =>
          /\ IsSome(lockfile)
          /\ lockfile' = lockfile
          /\ LET l == lockfile[1]
                 q == lookup'[1]
             IN  /\ q.fn \in {"get_command", "get_module"}
                 /\ q.fn = "get_command" =>
                       IF q.arg \in DOMAIN l.commands
                       THEN q.result.ok /\ q.result.value = l.commands[q.arg]
                       ELSE /\ ~q.result.ok
                            /\ q.result.err = [kind |-> "CommandNotFound", name |-> q.arg]
                 /\ q.fn = "get_module" =>
                       IF q.arg \in DOMAIN l.modules
                       THEN q.result.ok /\ q.result.value = l.modules[q.arg]
                       ELSE /\ ~q.result.ok
                            /\ q.result.err = [kind |-> "ModuleNotFound", name |-> q.arg]
      ]_vars

\* C8 witness: get_module("foo") on a Lockfile that holds foo 1.0.0 returned
\* ModuleNotFound
C8_Witness ==
    /\ IsSome(lookup)
    /\ lookup[1].fn = "get_module"
    /\ lookup[1].arg = "foo"
    /\ IsSome(lockfile)
    /\ "foo 1.0.0" \in DOMAIN lockfile[1].modules
    /\ ~lookup[1].result.ok

\* the imports that declare a command named c
ImportsDeclaring(c) ==
    {j \in Imports : c \in DeclaredCommands(calls[j].answer[1].manifest.command)}
\* the dependency sequence the running constructor resolves
DependencySequence == IF Creating THEN dependencies ELSE changed_dependencies

\* C9: the resolver is asked in the order of the dependency sequence, and in
\* the returned Lockfile a command name that the root manifest does not own
\* and that resolved dependencies with a module declare is bound to the
\* module key of the last of them in that order (a command copied from an
\* unchanged module is overwritten too).
C9_LastImportWins ==
    Returned =>
        /\ \A j \in 1..Len(calls) :
              <<calls[j].name, calls[j].version>> = DependencySequence[j]
        /\ \A c \in CommandNames :
              (~RootOwns(c) /\ ImportsDeclaring(c) # {}) =>
                 /\ c \in DOMAIN result[1].lockfile.commands
                 /\ \E j \in ImportsDeclaring(c) :
                       /\ \A h \in ImportsDeclaring(c) : h <= j
                       /\ result[1].lockfile.commands[c].module = ImportKey(j)

\* C9 witness: new_from_manifest returned after two dependencies, imported
\* under different keys, both declared do_foo_stuff, which the root manifest
\* does not own
C9_Witness ==
    /\ Creating /\ Returned
    /\ ~RootOwns("do_foo_stuff")
    /\ ImportsDeclaring("do_foo_stuff") = {1, 2}
    /\ ImportKey(1) # ImportKey(2)

\* every command of l refers to a key of the module map of l
Integrity(l) == \A c \in DOMAIN l.commands : l.commands[c].module \in DOMAIN l.modules

\* C10 as claimed: every Lockfile new_from_manifest returns, and every
\* Lockfile new_from_manifest_and_lockfile returns for an existing lockfile
\* with the property, binds each command to a key of its own module map.
C10_AsClaimed ==
    (Returned /\ (Reconciling => Integrity(existing_lockfile))) =>
        Integrity(result[1].lockfile)

\* C10 amended: under the same condition each command is bound to a key of
\* the module map of the returned Lockfile, or it is a command the root
\* manifest declares with an owned module and is bound to the root module's
\* name ++ " " ++ version.
C10_IntegrityButRoot ==
    (Returned /\ (Reconciling => Integrity(existing_lockfile))) =>
        \A c \in DOMAIN result[1].lockfile.commands :
            \/ result[1].lockfile.commands[c].module \in DOMAIN result[1].lockfile.modules
            \/ /\ RootOwns(c)
               /\ result[1].lockfile.commands[c].module
                     = Key(manifest.module[1].name, manifest.module[1].version)

\* C10 witness: a reconciliation of an existing lockfile with the property
\* returned a command copied from an unchanged module and a command of a
\* changed dependency
C10_Witness ==
    /\ Reconciling /\ Returned
    /\ Integrity(existing_lockfile)
    /\ DOMAIN existing_lockfile.commands # {}
    /\ Cardinality(DOMAIN result[1].lockfile.commands) = 2
    /\ Integrity(result[1].lockfile)
    /\ Len(calls) = 1

\* new_from_manifest resolved every declared dependency to a record of the
\* declared name whose module has the declared constraint as its version
Pinned ==
    /\ Len(manifests) = Len(dependencies)
    /\ \A j \in 1..Len(dependencies) :
          /\ manifests[j].name = dependencies[j][1]
          /\ IsSome(manifests[j].manifest.module)
          /\ manifests[j].manifest.module[1].version = dependencies[j][2]

\* C11: when new_from_manifest(M, R) returned L with every declared
\* dependency pinned, new_from_manifest_and_lockfile(M, L, R') finds no
\* changed dependency, never asks the resolver and returns a Lockfile with
\* the module map and the command map of the Lockfile it was given; that
\* Lockfile is L in the first reconciliation and the result of the previous
\* one in each later reconciliation, so every one of them returns L.
C11_PinnedLockIsFixpoint ==
    (Reconciling /\ Pinned) =>
        /\ changed_dependencies = <<>>
        /\ Len(calls) = Len(dependencies)
        /\ DOMAIN existing_lockfile.modules
              = {Key(dependencies[j][1], dependencies[j][2]) : j \in 1..Len(dependencies)}
        /\ pc = "done" =>
              /\ result[1].ok
              /\ result[1].lockfile.modules = existing_lockfile.modules
              /\ result[1].lockfile.commands = existing_lockfile.commands

\* C11 witness: a reconciliation of a Lockfile with two pinned dependencies
\* returned; the Lockfile holds a command of a dependency and a command of
\* the root manifest
C11_Witness ==
    /\ Reconciling /\ Returned
    /\ Pinned
    /\ Len(dependencies) = 2
    /\ RootOwns("do_foo_stuff")
    /\ DOMAIN result[1].lockfile.commands = {"do_foo_stuff", "do_more_foo_stuff"}
    /\ result[1].lockfile = existing_lockfile

====
